---- MODULE Spec2Model ----
(***************************************************************************)
(* Model of the derivation engine of the made_members dashboard:           *)
(*   src/src/utils/member_utils.py   is_education_member                   *)
(*   src/src/data/members.py         process_members_data, calculate_mrr,  *)
(*                                   prepare_all_members_view              *)
(*   src/src/data/activities.py      process_subscription_activities,      *)
(*                                   calculate_monthly_mrr_changes         *)
(*   src/src/visualizations/member_growth.py   show_member_growth          *)
(*   src/data_processing.py          process_subscription_activities, the  *)
(*                                   earlier copy kept at the top level    *)
(*                                                                         *)
(* Money is a Python float in the code.  The model computes it exactly, as *)
(* a reduced fraction <<n, d>> with d > 0; <<0, 0>> stands for NaN.        *)
(* Floating-point rounding is outside the model.                           *)
(***************************************************************************)
EXTENDS Integers, Sequences, FiniteSets, TLC

VARIABLES
    session_state,    \* st.session_state: the snapshot, its time, the derived caches
    remote,           \* the member list the Memberful API holds
    display,          \* the tables the last run of the dashboard showed
    refetched,        \* whether that run fetched the member data again
    stored_from,      \* the pagination run whose result is the stored snapshot
    aggregate,        \* the aggregate of the data layer called last, "none" before
    recent_orders_value, \* what calculate_recent_orders returned
    today,            \* datetime.now() as the trailing-window functions read it
    days,             \* the length of the trailing window they were given
    unique_new,       \* rows of prepare_new_members
    legacy_df,        \* the activities table of the copy in data_processing.py
    raised,           \* the exception the last call raised, "none" if it returned
    members_df,       \* the members table of process_members_data
    all_members,      \* rows of prepare_all_members_view
    growth_activities, \* the activities table handed to show_member_growth
    membership_data,  \* the rows of its "Total membership by month" chart
    now,              \* the wall clock, what datetime.now() returns
    rerun,            \* rows of a second call with the same arguments
    pc,               \* position of the run being modelled
    members_data,     \* raw member records handed to process_members_data
    subs_df,          \* the subscriptions table (rows of the DataFrame)
    mrr_result,       \* what calculate_mrr returned (or raised)
    orders,           \* orders of the member given to is_education_member
    edu_result,       \* what is_education_member returned
    activity,         \* raw activity handed to process_subscription_activities
    record,           \* the record the loop body built for it
    activities_data,  \* raw activity batch
    activities_df,    \* the activities table
    baseline,         \* starting MRR (cents) the caller of the reconciliation holds
    window,           \* <<first month, last month>> of the reconciliation
    result            \* rows of calculate_monthly_mrr_changes

vars == <<pc, members_data, subs_df, mrr_result, orders, edu_result,
          activity, record, activities_data, activities_df, baseline,
          window, result,
         now, rerun,
         growth_activities, membership_data,
         members_df, all_members,
         raised,
         legacy_df,
         today, days, unique_new,
         recent_orders_value,
         aggregate,
         session_state, remote, display, refetched, stored_from>>

----------------------------------------------------------------------------
(* Bounds of the model *)

MaxCount == 2        \* interval_count ranges over null, 0 .. MaxCount
MaxPlanSubs == 2     \* subscriptions of the single member of SpecMV
MaxMembers == 2      \* members of SpecMRR
MaxSubs == 3         \* subscription rows of SpecMRR, all members together
MaxOrders == 3       \* orders of the member of SpecEdu
MaxTime == 1         \* createdAt of an order ranges over 0 .. MaxTime
MaxActs == 2         \* activities of a batch in SpecRecon
MaxMonth == 3        \* calendar months are numbered 1 .. MaxMonth
MaxGrowthActs == 3   \* rows of the activities table of SpecGrowth
MaxRemote == 3       \* members the API holds in SpecDash
MaxDay == 3          \* the clock of SpecDash runs over days 0 .. MaxDay
PageSize == 2        \* members per page of the members query (100 in the code)

\* a createdAt past the last month stands for a timestamp that cannot be
\* converted to a date (beyond year 9999, or not a number at all)
OutOfRange == MaxMonth + 1
MalformedTimestamp(t) == t = OutOfRange

Prices == {100, 1200}                    \* priceCents of the plans tried
Units == {"week", "month", "year", ""}   \* "" is flattening's default (members.py:40)

----------------------------------------------------------------------------
(* Optional values: Python None, a float NaN, or a number *)

None == [t |-> "none", v |-> 0]
NaN == [t |-> "nan", v |-> 0]
Num(x) == [t |-> "num", v |-> x]

(* Exact arithmetic on fractions *)

RECURSIVE Gcd(_, _)
Gcd(a, b) == IF b = 0 THEN a ELSE Gcd(b, a % b)

Abs(x) == IF x < 0 THEN -x ELSE x

RNaN == <<0, 0>>
IsNaN(r) == r[2] = 0

Frac(n, d) ==
    LET g == Gcd(Abs(n), d) IN <<n \div g, d \div g>>

RInt(n) == <<n, 1>>

RAdd(a, b) ==
    IF IsNaN(a) \/ IsNaN(b) THEN RNaN
    ELSE LET g == Gcd(a[2], b[2])
             l == (a[2] \div g) * b[2]
         IN  Frac(a[1] * (l \div a[2]) + b[1] * (l \div b[2]), l)

RNeg(a) == IF IsNaN(a) THEN RNaN ELSE <<-a[1], a[2]>>

\* a / k for an integer k > 0
RDivInt(a, k) == IF IsNaN(a) THEN RNaN ELSE Frac(a[1], a[2] * k)

----------------------------------------------------------------------------
(* src/src/utils/member_utils.py: is_education_member                     *)
(* An order is [createdAt, totalCents, coupon]; coupon is the coupon code, *)
(* "" when the order has no coupon.                                        *)

CouponCodes == {"", "Education", "education"}
Totals == {0, 500}

Order(c, t, k) == [createdAt |-> c, totalCents |-> t, coupon |-> k]
OrderSet == {Order(c, t, k) : c \in 0..MaxTime, t \in Totals, k \in CouponCodes}

\* an unstable sort: of two orders with the same key the later one goes first
RECURSIVE InsertDescUnstable(_, _)
InsertDescUnstable(o, s) ==
    IF s = <<>> THEN <<o>>
    ELSE IF Head(s).createdAt > o.createdAt
         THEN <<Head(s)>> \o InsertDescUnstable(o, Tail(s))
         ELSE <<o>> \o s

\* sorted(..., reverse=True) is stable: of two orders with the same key the
\* one that came first in the input stays first.
RECURSIVE InsertDesc(_, _)
InsertDesc(o, s) ==
    IF s = <<>> THEN <<o>>
    ELSE IF Head(s).createdAt >= o.createdAt
         THEN <<Head(s)>> \o InsertDesc(o, Tail(s))
         ELSE <<o>> \o s

RECURSIVE SortedNewestFirst(_)
SortedNewestFirst(os) ==
    IF os = <<>> THEN <<>>
    ELSE InsertDesc(os[Len(os)], SortedNewestFirst(SubSeq(os, 1, Len(os) - 1)))

RECURSIVE SortedUnstable(_)
SortedUnstable(os) ==
    IF os = <<>> THEN <<>>
    ELSE InsertDescUnstable(os[Len(os)], SortedUnstable(SubSeq(os, 1, Len(os) - 1)))

\* the head of the unstable sort
MostRecentOrderUnstable(os) == SortedUnstable(os)[1]

\* sorted_orders[0], line 13
MostRecentOrder(os) == SortedNewestFirst(os)[1]

is_education_member(os) ==
    IF os = <<>> THEN FALSE
    ELSE LET most_recent_order == MostRecentOrder(os)
             is_free == most_recent_order.totalCents = 0
             has_education_coupon == most_recent_order.coupon = "Education"
         IN  is_free /\ has_education_coupon

----------------------------------------------------------------------------
(* src/src/data/members.py: process_members_data                          *)
(* A raw member is [id, orders, subscriptions]; a raw subscription is      *)
(* [id, active, name, priceCents, intervalUnit, intervalCount, createdAt]. *)

Counts == {None} \cup {Num(c) : c \in 0..MaxCount}

\* the name of the plan of a subscription id
PlanName(sid) == IF sid % 2 = 1 THEN "Individual" ELSE "Business"

\* a subscription created in month 1
RawSub(sid, act, p, u, c) ==
    [id |-> sid, active |-> act, name |-> PlanName(sid), priceCents |-> p,
     intervalUnit |-> u, intervalCount |-> c, createdAt |-> 1]

\* the dict appended per subscription (lines 31-45)
\* a row that takes the member's fields from nowhere: blank name and email,
\* the education flag at its default
SubscriptionRowDetached(member, sub) ==
    [subscription_id |-> sub.id,
     member_id |-> member.id,
     member_name |-> <<>>,
     member_email |-> <<>>,
     active |-> sub.active,
     plan |-> sub.name,
     price_cents |-> sub.priceCents,
     interval_unit |-> sub.intervalUnit,
     interval_count |-> sub.intervalCount,
     created_at |-> sub.createdAt,
     is_education |-> FALSE]

SubscriptionRow(member, sub) ==
    [subscription_id |-> sub.id,
     member_id |-> member.id,
     member_name |-> member.fullName,
     member_email |-> member.email,
     active |-> sub.active,
     plan |-> sub.name,
     price_cents |-> sub.priceCents,
     interval_unit |-> sub.intervalUnit,
     interval_count |-> sub.intervalCount,
     created_at |-> sub.createdAt,
     is_education |-> is_education_member(member.orders)]

RECURSIVE RowsOfMember(_, _)
RowsOfMember(member, ss) ==
    IF ss = <<>> THEN <<>>
    ELSE <<SubscriptionRow(member, Head(ss))>> \o RowsOfMember(member, Tail(ss))

RECURSIVE SubscriptionRows(_)
SubscriptionRows(ms) ==
    IF ms = <<>> THEN <<>>
    ELSE RowsOfMember(Head(ms), Head(ms).subscriptions) \o SubscriptionRows(Tail(ms))

\* pd.DataFrame(subscriptions), line 47: a column holding numbers and None
\* becomes float64 and its None cells become NaN; a column of None only
\* stays an object column of None.
DataFrame(rows) ==
    LET has_number == \E i \in 1..Len(rows) : rows[i].interval_count.t = "num"
    IN  [i \in 1..Len(rows) |->
            IF has_number /\ rows[i].interval_count = None
            THEN [rows[i] EXCEPT !.interval_count = NaN]
            ELSE rows[i]]

\* lines 11-20: the members table
MembersTable(ms) ==
    [i \in 1..Len(ms) |->
        [id |-> ms[i].id, email |-> ms[i].email, name |-> ms[i].fullName,
         is_education |-> is_education_member(ms[i].orders)]]

\* line 54: pd.to_datetime(subs_df[col], unit='s') raises on a cell it cannot
\* convert, and the function returns nothing
ProcessMembersDataRaises(ms) ==
    \E i \in 1..Len(SubscriptionRows(ms)) :
        MalformedTimestamp(SubscriptionRows(ms)[i].created_at)

\* the subscriptions table returned when nothing is raised
process_members_data(ms) == DataFrame(SubscriptionRows(ms))

----------------------------------------------------------------------------
(* src/src/data/members.py: calculate_mrr                                 *)

\* the divisor chosen by interval_unit (lines 117-119), as a fraction
UnitDivisor(unit) ==
    IF unit = "month" THEN <<1, 1>>
    ELSE IF unit = "week" THEN <<1, 4>>
    ELSE IF unit = "year" THEN <<12, 1>>
    ELSE <<0, 1>>

\* x["interval_count"] or 1 (line 120): None and 0 are falsy, NaN is truthy
CountOrOne(c) ==
    IF c.t = "none" THEN Num(1)
    ELSE IF c.t = "num" /\ c.v = 0 THEN Num(1)
    ELSE c

\* the row lambda of lines 115-121; dividing by the divisor 0 raises
RaisesZeroDivision(row) == UnitDivisor(row.interval_unit)[1] = 0

MrrMonthlyValue(row) ==
    LET dv == UnitDivisor(row.interval_unit)
        by_unit == Frac(row.price_cents * dv[2], dv[1])
        c == CountOrOne(row.interval_count)
    IN  IF c.t = "nan" THEN RNaN ELSE RDivInt(by_unit, c.v)

WithMonthlyValue(df) ==
    [i \in 1..Len(df) |->
        [subscription_id |-> df[i].subscription_id,
         member_id |-> df[i].member_id,
         member_name |-> df[i].member_name,
         member_email |-> df[i].member_email,
         active |-> df[i].active,
         plan |-> df[i].plan,
         created_at |-> df[i].created_at,
         price_cents |-> df[i].price_cents,
         interval_unit |-> df[i].interval_unit,
         interval_count |-> df[i].interval_count,
         is_education |-> df[i].is_education,
         monthly_value |-> MrrMonthlyValue(df[i])]]

\* df[mask]: mask holds one boolean per row
Filter(df, mask) ==
    LET RECURSIVE from(_)
        from(i) ==
            IF i > Len(df) THEN <<>>
            ELSE (IF mask[i] THEN <<df[i]>> ELSE <<>>) \o from(i + 1)
    IN  from(1)

\* df.drop_duplicates(column): keys holds the column; the first row of every
\* key value is kept
DropDuplicates(df, keys) ==
    LET first(i) == \A j \in 1..(i - 1) : keys[j] # keys[i]
    IN  Filter(df, [i \in 1..Len(df) |-> first(i)])

\* Series.sum(): NaN cells are skipped
RECURSIVE SumMonthlyValue(_)
SumMonthlyValue(df) ==
    IF df = <<>> THEN RInt(0)
    ELSE LET rest == SumMonthlyValue(Tail(df))
         IN  IF IsNaN(Head(df).monthly_value) THEN rest
             ELSE RAdd(Head(df).monthly_value, rest)

\* the education filter forgotten
MrrRowsFilterActiveOnly(row) == row.active

MrrRowsFilter(row) == row.active /\ ~row.is_education
ActiveFilter(row) == row.active
EducationFilter(row) == row.active /\ row.is_education

\* the masks and the key columns of a table
MrrMask(df) == [i \in 1..Len(df) |-> MrrRowsFilter(df[i])]
ActiveMask(df) == [i \in 1..Len(df) |-> ActiveFilter(df[i])]
EducationMask(df) == [i \in 1..Len(df) |-> EducationFilter(df[i])]
BySubscription(df) == [i \in 1..Len(df) |-> df[i].subscription_id]

\* every row a key of its own: nothing is deduplicated
ByRow(df) == [i \in 1..Len(df) |-> i]

ByMember(df) == [i \in 1..Len(df) |-> df[i].member_id]

\* no deduplication: every row is kept
UniqueSubsAllRows(mrr_subs) == mrr_subs

\* mrr_subs.drop_duplicates("subscription_id"), line 132
UniqueSubs(mrr_subs) == DropDuplicates(mrr_subs, BySubscription(mrr_subs))

MrrReturn(st, mrr, paying, act, edu) ==
    [status |-> st, current_mrr |-> mrr, paying_members_count |-> paying,
     active_count |-> act, education_count |-> edu]

calculate_mrr(df) ==
    IF df = <<>> THEN MrrReturn("ok", RInt(0), 0, 0, 0)
    ELSE IF \E i \in 1..Len(df) : RaisesZeroDivision(df[i])
    THEN MrrReturn("ZeroDivisionError", RInt(0), 0, 0, 0)
    ELSE LET tbl == WithMonthlyValue(df)
             mrr_subs == Filter(tbl, MrrMask(tbl))
             unique_subs == UniqueSubs(mrr_subs)
             active_members == Filter(tbl, ActiveMask(tbl))
             education_members == Filter(tbl, EducationMask(tbl))
         IN  MrrReturn("ok",
                       RDivInt(SumMonthlyValue(unique_subs), 100),
                       Len(unique_subs),
                       Len(DropDuplicates(active_members, ByMember(active_members))),
                       Len(DropDuplicates(education_members,
                                          ByMember(education_members))))

----------------------------------------------------------------------------
(* src/src/data/members.py: prepare_all_members_view                      *)

\* the columns of member_subs taken into the merge (lines 66-70)
SubscriptionColumns(row) ==
    [member_id |-> row.member_id, active |-> row.active, plan |-> row.plan,
     subscription_id |-> row.subscription_id, is_education |-> row.is_education]

\* line 65: what sort_values("created_at", ascending=False) may return; the
\* order of rows of equal created_at is left to the sorting algorithm
IsPermutation(f, n) == \A i \in 1..n : \E j \in 1..n : f[j] = i

SortValues(df) ==
    {[i \in 1..Len(df) |-> df[f[i]]] :
        f \in {g \in [1..Len(df) -> 1..Len(df)] :
                  /\ IsPermutation(g, Len(df))
                  /\ \A i \in 1..(Len(df) - 1) :
                         df[g[i]].created_at >= df[g[i + 1]].created_at}}

\* lines 72-73: the left merge of the members with the rows of member_subs;
\* a member without a row gets nulls
Merge(members, member_subs) ==
    LET RECURSIVE rows_from(_)
        rows_from(i) ==
            IF i > Len(members) THEN <<>>
            ELSE LET matches == Filter(member_subs,
                                       [k \in 1..Len(member_subs) |->
                                           member_subs[k].member_id = members[i].id])
                     joined ==
                         IF matches = <<>>
                         THEN <<[id |-> members[i].id,
                                 is_education_x |-> members[i].is_education,
                                 subscription |-> None]>>
                         ELSE [k \in 1..Len(matches) |->
                                  [id |-> members[i].id,
                                   is_education_x |-> members[i].is_education,
                                   subscription |-> SubscriptionColumns(matches[k])]]
                 IN  joined \o rows_from(i + 1)
    IN  rows_from(1)

\* lines 58-75, for one of the orders the sort may return
prepare_all_members_view(members, sorted) ==
    IF sorted = <<>> THEN <<>>
    ELSE Merge(members, DropDuplicates(sorted, ByMember(sorted)))

(* prepare_new_members                                                      *)

\* subs_df["created_at"] > past_date: the boundary left out
NewSubsAfter(df, past_date) ==
    Filter(df, [i \in 1..Len(df) |-> df[i].created_at > past_date])

\* subs_df[subs_df["created_at"] >= past_date], line 87
NewSubs(df, past_date) ==
    Filter(df, [i \in 1..Len(df) |-> df[i].created_at >= past_date])

\* the table of subscriptions created in the last window_days days, read at
\* clock value clock
prepare_new_members(df, window_days, clock) ==
    IF df = <<>> THEN <<>>
    ELSE LET past_date == clock - window_days
             new_subs == NewSubs(df, past_date)
         IN  IF new_subs # <<>>
             THEN DropDuplicates(new_subs, BySubscription(new_subs))
             ELSE <<>>

(* calculate_recent_orders                                                  *)

\* every order counts, whatever its status and date
IsRecentAlways(order, cutoff_timestamp) == TRUE

\* order.get("status") == "completed" and
\* order.get("createdAt", 0) >= cutoff_timestamp, line 104
IsRecent(order, cutoff_timestamp) ==
    order.status = "completed" /\ order.createdAt >= cutoff_timestamp

RECURSIVE OrdersCents(_, _)
\* the inner loop, lines 103-105
OrdersCents(os, cutoff_timestamp) ==
    IF os = <<>> THEN 0
    ELSE (IF IsRecent(Head(os), cutoff_timestamp) THEN Head(os).totalCents ELSE 0)
         + OrdersCents(Tail(os), cutoff_timestamp)

RECURSIVE TotalCents(_, _)
\* the outer loop, lines 101-105
TotalCents(ms, cutoff_timestamp) ==
    IF ms = <<>> THEN 0
    ELSE OrdersCents(Head(ms).orders, cutoff_timestamp)
         + TotalCents(Tail(ms), cutoff_timestamp)

\* the value of the orders of the last window_days days, in dollars, read at
\* clock value clock
calculate_recent_orders(ms, window_days, clock) ==
    IF ms = <<>> THEN RInt(0)
    ELSE Frac(TotalCents(ms, clock - window_days), 100)

----------------------------------------------------------------------------
(* src/src/data/activities.py: process_subscription_activities             *)
(* A raw activity is [type, createdAt, email, subscription]; createdAt is   *)
(* the number of the calendar month it falls in; subscription is            *)
(* NoSubscription or [some, priceCents, intervalUnit, intervalCount,        *)
(* orders], orders being the coupon codes of its orders ("" for an order    *)
(* without a coupon).                                                       *)

ActivityTypes ==
    {"new_subscription", "new_order", "subscription_reactivated", "upgrade",
     "downgrade", "subscription_deleted", "subscription_deactivated",
     "renewal_payment_failed", "order_payment_failed",
     "subscription_renewal_failed", "renewal", "free_signup",
     "team_member_added", "team_member_deleted", "auto_renew_disabled",
     "member_updated"}

\* "renewal_failed" in activity_type, "payment_failed" in activity_type
ContainsRenewalFailed(type) == type \in {"subscription_renewal_failed"}
ContainsPaymentFailed(type) ==
    type \in {"renewal_payment_failed", "order_payment_failed"}
\* "team_member" in activity_type, "auto_renew" in activity_type
ContainsTeamMember(type) == type \in {"team_member_added", "team_member_deleted"}
ContainsAutoRenew(type) == type \in {"auto_renew_disabled"}

Emails == {"", "ann@example.com", "bob@usm.maine.edu"}
\* member_email.lower().endswith((".edu", "@meca.edu", ...)), line 53
EndsWithEduDomain(email) == email \in {"bob@usm.maine.edu"}

ActivityCoupons == {"", "Education", "EDUCATION-2024", "Other"}
\* "education" in coupon.get("code", "").lower(), line 60
ContainsEducation(code) == code \in {"Education", "education", "EDUCATION-2024"}

NoSubscription ==
    [some |-> FALSE, priceCents |-> None, intervalUnit |-> "null",
     intervalCount |-> None, orders |-> <<>>]

Subscription(p, u, c, os) ==
    [some |-> TRUE, priceCents |-> p, intervalUnit |-> u, intervalCount |-> c,
     orders |-> os]

RawActivity(ty, m, e, sub) ==
    [type |-> ty, createdAt |-> m, email |-> e, subscription |-> sub]

\* lines 74-78: the multiplier, as a fraction
ActivityMultiplier(interval_unit) ==
    IF interval_unit = "week" THEN <<1, 4>>
    ELSE IF interval_unit = "year" THEN <<1, 12>>
    ELSE <<1, 1>>

\* line 80: plan_price_cents * monthly_multiplier / (interval_count or 1)
ActivityMonthlyValue(plan_price_cents, interval_unit, interval_count) ==
    LET mult == ActivityMultiplier(interval_unit)
    IN  RDivInt(Frac(plan_price_cents * mult[1], mult[2]),
                CountOrOne(interval_count).v)

\* lines 49-62
ActivityIsEducation(a) ==
    \/ a.email # "" /\ EndsWithEduDomain(a.email)
    \/ /\ a.subscription.some
       /\ \E i \in 1..Len(a.subscription.orders) :
              ContainsEducation(a.subscription.orders[i])

\* lines 86-94
EducationCategory(type) ==
    IF type \in {"new_subscription", "new_order"} THEN "Education members"
    ELSE IF type = "renewal" THEN "Education renewals"
    ELSE IF type = "subscription_deactivated" THEN "Education cancellations"
    ELSE "Education changes"

\* an education activity given the impact of a paying one
EducationImpactFull(monthly_value) == monthly_value

\* lines 84 and 123: what an education activity contributes
EducationImpact(monthly_value) == RInt(0)

\* a downgrade given the sign of an upgrade
RevenueImpactUnsigned(type, monthly_value) ==
    IF type \in {"new_subscription", "new_order"}
    THEN <<"New members", monthly_value>>
    ELSE IF type = "subscription_reactivated"
    THEN <<"Reactivations", monthly_value>>
    ELSE IF type = "upgrade" THEN <<"Upgrades", monthly_value>>
    ELSE IF type = "downgrade" THEN <<"Downgrades", monthly_value>>
    ELSE IF type \in {"subscription_deleted", "subscription_deactivated"}
    THEN <<"Cancellations", RNeg(monthly_value)>>
    ELSE IF ContainsPaymentFailed(type) \/ ContainsRenewalFailed(type)
    THEN <<"Failed payments", RNeg(monthly_value)>>
    ELSE IF type = "renewal" THEN <<"Renewals", RInt(0)>>
    ELSE <<"Other", RInt(0)>>

\* lines 97-124: <<category, mrr_impact>> of a non-education activity
RevenueImpact(type, monthly_value) ==
    IF type \in {"new_subscription", "new_order"}
    THEN <<"New members", monthly_value>>
    ELSE IF type = "subscription_reactivated"
    THEN <<"Reactivations", monthly_value>>
    ELSE IF type = "upgrade" THEN <<"Upgrades", monthly_value>>
    ELSE IF type = "downgrade" THEN <<"Downgrades", RNeg(monthly_value)>>
    ELSE IF type \in {"subscription_deleted", "subscription_deactivated"}
    THEN <<"Cancellations", RNeg(monthly_value)>>
    ELSE IF \/ type = "renewal_payment_failed"
            \/ ContainsRenewalFailed(type)
            \/ ContainsPaymentFailed(type)
    THEN <<"Failed payments", RNeg(monthly_value)>>
    ELSE IF type = "renewal" THEN <<"Renewals", RInt(0)>>
    ELSE <<"Other", RInt(0)>>

\* lines 127-132
UnsubscribedCategory(type) ==
    IF type = "free_signup" THEN "Free signups"
    ELSE IF ContainsTeamMember(type) THEN "Team member changes"
    ELSE IF ContainsAutoRenew(type) THEN "Subscription changes"
    ELSE "Other"

\* the body of the loop, lines 28-159
ActivityRecord(a) ==
    LET sub == a.subscription
        is_education == ActivityIsEducation(a)
        priced == sub.some /\ sub.priceCents.t = "num" /\ sub.intervalUnit # "null"
        monthly_value ==
            IF priced
            THEN ActivityMonthlyValue(sub.priceCents.v, sub.intervalUnit,
                                      sub.intervalCount)
            ELSE RInt(0)
        cat_impact ==
            IF priced
            THEN IF is_education
                 THEN <<EducationCategory(a.type), EducationImpact(monthly_value)>>
                 ELSE RevenueImpact(a.type, monthly_value)
            ELSE IF sub.some THEN <<"Other", RInt(0)>>
            ELSE <<UnsubscribedCategory(a.type), RInt(0)>>
        mrr_impact == cat_impact[2]
    IN  [type |-> a.type,
         category |-> cat_impact[1],
         month |-> a.createdAt,
         has_subscription |-> sub.some,
         is_education |-> is_education,
         interval_unit |-> sub.intervalUnit,
         monthly_value |-> monthly_value,
         mrr_impact_cents |-> mrr_impact,
         mrr_impact_dollars |->
             IF mrr_impact[1] # 0 THEN RDivInt(mrr_impact, 100) ELSE RInt(0)]

\* line 139: datetime.fromtimestamp(created_at) raises inside the loop on a
\* createdAt it cannot convert, and the function returns nothing
ProcessSubscriptionActivitiesRaises(data) ==
    \E i \in 1..Len(data) : MalformedTimestamp(data[i].createdAt)

process_subscription_activities(data) ==
    [i \in 1..Len(data) |-> ActivityRecord(data[i])]

----------------------------------------------------------------------------
(* src/data_processing.py: process_subscription_activities, the earlier    *)
(* copy of the function.  A plan field that is left out takes the default  *)
(* of lines 169-172; the activities carry no previousData.                 *)

\* lines 175-179: the multiplier, as a fraction
LegacyMultiplier(interval_unit) ==
    IF interval_unit = "week" THEN <<1, 4>>
    ELSE IF interval_unit = "year" THEN <<12, 1>>
    ELSE <<1, 1>>

\* lines 170-181: plan_price_cents / (monthly_multiplier * (interval_count or 1))
LegacyMonthlyValue(sub) ==
    LET price == IF sub.priceCents.t = "num" THEN sub.priceCents.v ELSE 0
        mult == LegacyMultiplier(sub.intervalUnit)
    IN  Frac(price * mult[2], mult[1] * CountOrOne(sub.intervalCount).v)

\* lines 204-233, old_monthly_value being 0: <<category, mrr_impact>>
LegacyImpact(type, monthly_value) ==
    IF type = "new_subscription" THEN <<"New Members", monthly_value>>
    ELSE IF type = "subscription_reactivated" THEN <<"Reactivations", monthly_value>>
    ELSE IF type = "upgrade" THEN <<"Upgrades", monthly_value>>
    ELSE IF type = "downgrade" THEN <<"Downgrades", monthly_value>>
    ELSE IF type \in {"subscription_deleted", "subscription_deactivated"}
         THEN <<"Cancellations", RNeg(monthly_value)>>
    ELSE IF type = "renewal_payment_failed"
         THEN <<"Failed Payments", RNeg(monthly_value)>>
    ELSE <<"Other", RInt(0)>>

\* lines 236-252
LegacyRecord(a) ==
    LET monthly_value == LegacyMonthlyValue(a.subscription)
        impact == LegacyImpact(a.type, monthly_value)
    IN  [type |-> a.type,
         category |-> impact[1],
         month |-> a.createdAt,
         monthly_value |-> monthly_value,
         mrr_impact_cents |-> impact[2],
         mrr_impact_dollars |->
             IF impact[2][1] # 0 THEN RDivInt(impact[2], 100) ELSE RInt(0)]

\* lines 155-158: an activity without subscription data is skipped
RECURSIVE LegacyRecords(_)
LegacyRecords(data) ==
    IF data = <<>> THEN <<>>
    ELSE (IF Head(data).subscription.some
          THEN <<LegacyRecord(Head(data))>> ELSE <<>>)
         \o LegacyRecords(Tail(data))

\* line 240: datetime.fromtimestamp(created_at), reached for the activities
\* that are not skipped
LegacyRaises(data) ==
    \E i \in 1..Len(data) :
        data[i].subscription.some /\ MalformedTimestamp(data[i].createdAt)

data_processing_process_subscription_activities(data) == LegacyRecords(data)

----------------------------------------------------------------------------
(* src/src/data/activities.py: calculate_monthly_mrr_changes               *)
(* A date is [month, day, hour]; months are numbered consecutively.         *)

Date(m, d, h) == [month |-> m, day |-> d, hour |-> h]

DateLeq(a, b) ==
    \/ a.month < b.month
    \/ a.month = b.month /\ a.day < b.day
    \/ a.month = b.month /\ a.day = b.day /\ a.hour <= b.hour

\* lines 192-201: replace(day=1) keeps the time of day of start_date
RECURSIVE MonthsFrom(_, _)
MonthsFrom(current_date, end_date) ==
    IF DateLeq(current_date, end_date)
    THEN <<current_date.month>>
         \o MonthsFrom([current_date EXCEPT !.month = @ + 1], end_date)
    ELSE <<>>

MonthsRange(start_date, end_date) ==
    MonthsFrom([start_date EXCEPT !.day = 1], end_date)

\* lines 229-230
categories ==
    <<"Starting MRR", "New members", "Reactivations", "Upgrades",
      "Downgrades", "Cancellations", "Failed payments", "Total MRR">>

\* a summed category forgotten
SummedCategoriesShort ==
    {"New members", "Reactivations", "Upgrades", "Downgrades", "Failed payments"}

\* line 312: the categories added up into Total MRR
SummedCategories ==
    {"New members", "Reactivations", "Upgrades", "Downgrades",
     "Cancellations", "Failed payments"}

\* line 286
initial_mrr == Frac(48771, 100)

\* line 207: groupby(["month", "category"])["mrr_impact_dollars"].sum()
RECURSIVE GroupSum(_, _, _)
GroupSum(df, month, category) ==
    IF df = <<>> THEN RInt(0)
    ELSE LET rest == GroupSum(Tail(df), month, category)
         IN  IF Head(df).month = month /\ Head(df).category = category
             THEN RAdd(Head(df).mrr_impact_dollars, rest)
             ELSE rest

HasGroup(df, month, category) ==
    \E i \in 1..Len(df) : df[i].month = month /\ df[i].category = category

\* lines 232-279: one row per month and category, in month and category
\* order, holding the group's sum where the left merge finds one, else 0
MergedRows(df, months) ==
    [k \in 1..(Len(months) * Len(categories)) |->
        LET month == months[((k - 1) \div Len(categories)) + 1]
            category == categories[((k - 1) % Len(categories)) + 1]
        IN  [month |-> month,
             category |-> category,
             mrr_impact_dollars |->
                 IF HasGroup(df, month, category)
                 THEN GroupSum(df, month, category)
                 ELSE RInt(0)]]

\* result.loc[(month) & (category), "mrr_impact_dollars"].iloc[0]
Cell(rows, month, category) ==
    LET k == CHOOSE k \in 1..Len(rows) :
                 rows[k].month = month /\ rows[k].category = category
    IN  rows[k].mrr_impact_dollars

\* result.loc[(month) & (category), "mrr_impact_dollars"] = value
SetCell(rows, month, category, value) ==
    [k \in 1..Len(rows) |->
        IF rows[k].month = month /\ rows[k].category = category
        THEN [rows[k] EXCEPT !.mrr_impact_dollars = value]
        ELSE rows[k]]

\* lines 310-314: the sum over the rows of the month in the summed categories
RECURSIVE SumCategories(_, _, _)
SumCategories(rows, month, cats) ==
    IF rows = <<>> THEN RInt(0)
    ELSE LET rest == SumCategories(Tail(rows), month, cats)
         IN  IF Head(rows).month = month /\ Head(rows).category \in cats
             THEN RAdd(Head(rows).mrr_impact_dollars, rest)
             ELSE rest

\* every month restarted from the previous month's starting value
StartingMrrStale(rows, months, i) ==
    IF i = 1 THEN initial_mrr
    ELSE Cell(rows, months[i - 1], "Starting MRR")

\* lines 294-304: the starting MRR of the i-th month
StartingMrr(rows, months, i) ==
    IF i = 1 THEN initial_mrr
    ELSE Cell(rows, months[i - 1], "Total MRR")

\* lines 290-317: the loop over months_sorted, from its i-th month on
RECURSIVE WalkMonths(_, _, _)
WalkMonths(rows, months, i) ==
    IF i > Len(months) THEN rows
    ELSE LET month == months[i]
             starting_mrr == StartingMrr(rows, months, i)
             started == SetCell(rows, month, "Starting MRR", starting_mrr)
             total_mrr == RAdd(starting_mrr,
                               SumCategories(started, month, SummedCategories))
         IN  WalkMonths(SetCell(started, month, "Total MRR", total_mrr),
                        months, i + 1)

\* lines 188-189: an end_date left out is the wall clock of the call
EndDate(end_date) == IF end_date = None THEN now ELSE end_date

\* without the early return of lines 184-185: the baseline rows of every
\* month, also for an empty table
MonthlyMrrChangesOfAnyTable(df, start_date, end_date) ==
    LET months == MonthsRange(start_date, EndDate(end_date))
    IN  WalkMonths(MergedRows(df, months), months, 1)

calculate_monthly_mrr_changes(df, start_date, end_date) ==
    IF df = <<>> THEN <<>>
    ELSE LET months == MonthsRange(start_date, EndDate(end_date))
         IN  WalkMonths(MergedRows(df, months), months, 1)

----------------------------------------------------------------------------
(* src/src/visualizations/member_growth.py: show_member_growth             *)
(* A row of the activities table is [type, month, subscription_id].        *)

GrowthActivity(ty, m, sid) == [type |-> ty, month |-> m, subscription_id |-> sid]

\* lines 35-39
activity_types ==
    [new |-> {"new_order"},
     churned |-> {"subscription_deactivated"},
     renewed |-> {"renewal"}]

\* line 59: recent_activities[recent_activities["type"].isin(act_types)]
TypeActivities(recent_activities, act_types) ==
    Filter(recent_activities,
           [i \in 1..Len(recent_activities) |->
               recent_activities[i].type \in act_types])

\* line 63: drop_duplicates('subscription_id'), the rows left for the groupby
UniqueTypeActivities(recent_activities, act_types) ==
    LET type_activities == TypeActivities(recent_activities, act_types)
    IN  DropDuplicates(type_activities, BySubscription(type_activities))

\* line 63: .groupby("month").size(), as the months found and their sizes
GroupMonths(rows) == {rows[i].month : i \in 1..Len(rows)}
GroupSize(rows, month) == Cardinality({i \in 1..Len(rows) : rows[i].month = month})

\* lines 132-136: the months of the three tables
AllMonths(recent_activities) ==
    GroupMonths(UniqueTypeActivities(recent_activities, activity_types.new))
    \cup GroupMonths(UniqueTypeActivities(recent_activities, activity_types.churned))
    \cup GroupMonths(UniqueTypeActivities(recent_activities, activity_types.renewed))

\* lines 139-149: the left merges, a month missing from a table counting 0
MonthlyChanges(recent_activities) ==
    [month \in AllMonths(recent_activities) |->
        [new |-> GroupSize(UniqueTypeActivities(recent_activities,
                                                activity_types.new), month),
         churned |-> GroupSize(UniqueTypeActivities(recent_activities,
                                                    activity_types.churned), month),
         renewed |-> GroupSize(UniqueTypeActivities(recent_activities,
                                                    activity_types.renewed), month)]]

\* line 240: sorted(all_months)
RECURSIVE SortedMonths(_)
SortedMonths(months) ==
    IF months = {} THEN <<>>
    ELSE LET first == CHOOSE m \in months : \A n \in months : m <= n
         IN  <<first>> \o SortedMonths(months \ {first})

\* lines 235-236
CurrentActiveCount(df) ==
    Len(DropDuplicates(Filter(df, ActiveMask(df)), ByMember(Filter(df, ActiveMask(df)))))

\* lines 255-291: the loop over reversed(all_months_sorted), from the k-th
\* month of all_months_sorted down to the first; the rows come back in
\* chronological order (line 294)
RECURSIVE WalkBack(_, _, _, _)
WalkBack(monthly_changes, all_months_sorted, k, running_total) ==
    IF k = 0 THEN <<>>
    ELSE LET month == all_months_sorted[k]
             new_members == monthly_changes[month].new
             churned_members == monthly_changes[month].churned
             month_total ==
                 IF k = Len(all_months_sorted) THEN running_total
                 ELSE running_total - new_members + churned_members
         IN  Append(WalkBack(monthly_changes, all_months_sorted, k - 1, month_total),
                    [month |-> month,
                     continuing_members |-> month_total - new_members,
                     new_members |-> new_members,
                     cancelled_members |-> IF churned_members > 0
                                           THEN 0 - churned_members ELSE 0,
                     total_active |-> month_total])

\* lines 17-19 and 231-294, for activities that all fall after the start date
\* and hold both a new order and a deactivation
show_member_growth(df, recent_activities) ==
    IF df = <<>> THEN <<>>
    ELSE LET all_months_sorted == SortedMonths(AllMonths(recent_activities))
         IN  WalkBack(MonthlyChanges(recent_activities), all_months_sorted,
                      Len(all_months_sorted), CurrentActiveCount(df))

----------------------------------------------------------------------------
(* src/app.py: one run of the dashboard script for a session, and           *)
(* fetch_all_members (the same loop in src/src/api/memberful.py).  A member *)
(* of the API is [id, createdAt] and holds one subscription of that date;   *)
(* times are in days.  A key of st.session_state is Absent or Cached(v).    *)

Absent == [t |-> "absent", v |-> <<>>]
Cached(v) == [t |-> "value", v |-> v]

\* no key is set when the session starts
NewSession ==
    [members_data |-> Absent, last_fetch_time |-> Absent,
     all_members_cache |-> Absent, new_subs_30d_cache |-> Absent,
     new_subs_90d_cache |-> Absent]

\* the join date of the i-th member: long ago, two months ago, or today
JoinDay(i) == IF i = 1 THEN -100 ELSE IF i = 2 THEN -50 ELSE 0

RemoteMember(i) == [id |-> i, createdAt |-> JoinDay(i)]

\* the API answers a members query with at least one page
PageCount(members) ==
    IF members = <<>> THEN 1 ELSE (Len(members) + PageSize - 1) \div PageSize

\* nodes of the k-th page
PageNodes(members, k) ==
    SubSeq(members, (k - 1) * PageSize + 1,
           IF k * PageSize < Len(members) THEN k * PageSize ELSE Len(members))

\* pageInfo.hasNextPage of the k-th page
HasNextPage(members, k) == k < PageCount(members)

RECURSIVE FetchPages(_, _, _)
\* the while loop from page k on: the request of page fail returns nothing
\* and the loop breaks with what it has collected
FetchPages(members, k, fail) ==
    IF k = fail THEN <<>>
    ELSE PageNodes(members, k)
         \o (IF HasNextPage(members, k)
             THEN FetchPages(members, k + 1, fail)
             ELSE <<>>)

fetch_all_members(members, fail) == FetchPages(members, 1, fail)

\* 24 hours, in days
CacheLifetime == 1

\* time_difference.total_seconds() > 24 * 60 * 60
Expired(session, current_time) ==
    /\ session.last_fetch_time # Absent
    /\ current_time - session.last_fetch_time.v > CacheLifetime

\* the refresh button: the snapshot and every key ending in _cache go
ClearCaches(session) ==
    [session EXCEPT !.members_data = Absent,
                    !.all_members_cache = Absent,
                    !.new_subs_30d_cache = Absent,
                    !.new_subs_90d_cache = Absent]

\* the latest subscription of every member, left-joined to the members
AllMembersTable(members) ==
    [i \in 1..Len(members) |->
        [id |-> members[i].id, subscription_id |-> members[i].id]]

\* the subscriptions created at or after past_date, once per id
NewSubsTable(members, past_date) ==
    LET rows == [i \in 1..Len(members) |->
                    [subscription_id |-> members[i].id,
                     created_at |-> members[i].createdAt]]
    IN  Filter(rows, [i \in 1..Len(rows) |-> rows[i].created_at >= past_date])

\* a derived key is computed only when it is not in the session
StoreDerived(session, members, current_time) ==
    [session EXCEPT
        !.all_members_cache =
            IF @ = Absent THEN Cached(AllMembersTable(members)) ELSE @,
        !.new_subs_30d_cache =
            IF @ = Absent
            THEN Cached(NewSubsTable(members, current_time - 30)) ELSE @,
        !.new_subs_90d_cache =
            IF @ = Absent
            THEN Cached(NewSubsTable(members, current_time - 90)) ELSE @]

\* what a run at current_time shows: the member data and the cached tables
Shown(session, members, current_time) ==
    [shown_at |-> current_time,
     members_data |-> members,
     all_members |-> session.all_members_cache.v,
     new_subs_30d |-> session.new_subs_30d_cache.v,
     new_subs_90d |-> session.new_subs_90d_cache.v]

----------------------------------------------------------------------------
(* The runs.  Every specification starts from the same idle state and      *)
(* drives one part of the engine.                                          *)

Unset == <<>>

Idle ==
    /\ pc = "input"
    /\ members_data = <<>>
    /\ subs_df = <<>>
    /\ mrr_result = Unset
    /\ orders = <<>>
    /\ edu_result = FALSE
    /\ activity = Unset
    /\ record = Unset
    /\ activities_data = <<>>
    /\ activities_df = <<>>
    /\ baseline = Unset
    /\ window = Unset
    /\ result = <<>>
    /\ now = Date(1, 1, 0)
    /\ rerun = Unset
    /\ growth_activities = <<>>
    /\ membership_data = Unset
    /\ members_df = <<>>
    /\ all_members = <<>>
    /\ raised = "none"
    /\ legacy_df = <<>>
    /\ today = 0
    /\ days = 0
    /\ unique_new = <<>>
    /\ recent_orders_value = Unset
    /\ aggregate = "none"
    /\ session_state = NewSession
    /\ remote = <<>>
    /\ display = <<>>
    /\ refetched = FALSE
    /\ stored_from = <<>>

MemberVars == <<members_data, subs_df, mrr_result>>
EduVars == <<orders, edu_result>>
ActVars == <<activity, record>>
ReconVars == <<activities_data, activities_df, baseline, window, result>>
ClockVars == <<now, rerun>>
GrowthVars == <<growth_activities, membership_data>>
ViewVars == <<members_df, all_members>>
ErrVars == <<raised>>
LegacyVars == <<legacy_df>>
NewVars == <<today, days, unique_new>>
OrderVars == <<recent_orders_value>>
CallVars == <<aggregate>>
DashVars == <<session_state, remote, display, refetched, stored_from>>

(* is_education_member on the orders of one member *)

AddOrder(o) ==
    /\ pc = "input"
    /\ Len(orders) < MaxOrders
    /\ orders' = Append(orders, o)
    /\ UNCHANGED <<pc, edu_result, MemberVars, ActVars, ReconVars, ClockVars,
                   GrowthVars, ViewVars, ErrVars, LegacyVars, NewVars, OrderVars, CallVars, DashVars>>

IsEducationMember ==
    /\ pc = "input"
    /\ edu_result' = is_education_member(orders)
    /\ pc' = "done"
    /\ UNCHANGED <<orders, MemberVars, ActVars, ReconVars, ClockVars,
                   GrowthVars, ViewVars, ErrVars, LegacyVars, NewVars, OrderVars, CallVars, DashVars>>

NextEdu ==
    \/ \E o \in OrderSet : AddOrder(o)
    \/ IsEducationMember

SpecEdu == Idle /\ [][NextEdu]_vars

(* process_members_data and calculate_mrr *)

\* the identity the API reports for member i
MemberEmail(i) == <<"email", i>>
MemberName(i) == <<"fullName", i>>

Member(i, os) ==
    [id |-> i, email |-> MemberEmail(i), fullName |-> MemberName(i),
     orders |-> os, subscriptions |-> <<>>]

\* the orders tried for the members: none, or a free Education order
MemberOrders == {<<>>, <<Order(0, 0, "Education")>>}

\* the subscription ids tried in SpecMRR
SubIds == {1, 2}

\* every subscription id stands for one plan, whoever holds a seat of it
CatalogPlan(sid) ==
    IF sid % 3 = 1 THEN [price |-> 1200, unit |-> "year", count |-> Num(1)]
    ELSE IF sid % 3 = 2 THEN [price |-> 100, unit |-> "week", count |-> Num(1)]
    ELSE [price |-> 100, unit |-> "month", count |-> Num(2)]

RowCount(ms) == Len(SubscriptionRows(ms))

AddMember(os) ==
    /\ pc = "input"
    /\ Len(members_data) < MaxMembers
    /\ members_data' = Append(members_data, Member(Len(members_data) + 1, os))
    /\ UNCHANGED <<pc, subs_df, mrr_result, EduVars, ActVars, ReconVars,
                   ClockVars, GrowthVars, ViewVars, ErrVars, LegacyVars, NewVars, OrderVars, CallVars, DashVars>>

AppendSubscription(sub) ==
    LET n == Len(members_data)
    IN  members_data' =
            [members_data EXCEPT ![n].subscriptions = Append(@, sub)]

\* a seat of a subscription of the catalogue, for the member added last
AddSubscription(sid, act) ==
    /\ pc = "input"
    /\ members_data # <<>>
    /\ RowCount(members_data) < MaxSubs
    /\ LET plan == CatalogPlan(sid)
       IN  AppendSubscription(RawSub(sid, act, plan.price, plan.unit, plan.count))
    /\ UNCHANGED <<pc, subs_df, mrr_result, EduVars, ActVars, ReconVars,
                   ClockVars, GrowthVars, ViewVars, ErrVars, LegacyVars, NewVars, OrderVars, CallVars, DashVars>>

\* a subscription of its own on any plan, for the single member of SpecMV
AddPlanSubscription(p, u, c) ==
    /\ pc = "input"
    /\ RowCount(members_data) < MaxPlanSubs
    /\ AppendSubscription(RawSub(RowCount(members_data) + 1, TRUE, p, u, c))
    /\ UNCHANGED <<pc, subs_df, mrr_result, EduVars, ActVars, ReconVars,
                   ClockVars, GrowthVars, ViewVars, ErrVars, LegacyVars, NewVars, OrderVars, CallVars, DashVars>>

ProcessMembersData ==
    /\ pc = "input"
    /\ IF ProcessMembersDataRaises(members_data)
       THEN /\ raised' = "OutOfBoundsDatetime"
            /\ pc' = "raised"
            /\ UNCHANGED <<subs_df, members_df>>
       ELSE /\ raised' = "none"
            /\ members_df' = MembersTable(members_data)
            /\ subs_df' = process_members_data(members_data)
            /\ pc' = "flattened"
    /\ UNCHANGED <<members_data, mrr_result, all_members, EduVars, ActVars,
                   ReconVars, ClockVars, GrowthVars, LegacyVars, NewVars, OrderVars, CallVars, DashVars>>

\* calculate_mrr also writes the monthly_value column into the caller's
\* table (line 115), unless the row lambda raises first
CalculateMrr ==
    /\ pc = "flattened"
    /\ mrr_result' = calculate_mrr(subs_df)
    /\ subs_df' = IF subs_df # <<>> /\ mrr_result'.status = "ok"
                  THEN WithMonthlyValue(subs_df)
                  ELSE subs_df
    /\ pc' = "done"
    /\ aggregate' = "calculate_mrr"
    /\ UNCHANGED <<members_data, EduVars, ActVars, ReconVars, ClockVars,
                   GrowthVars, ViewVars, ErrVars, LegacyVars, NewVars, OrderVars, DashVars>>

NextMRR ==
    \/ \E os \in MemberOrders : AddMember(os)
    \/ \E sid \in SubIds, act \in BOOLEAN : AddSubscription(sid, act)
    \/ ProcessMembersData
    \/ CalculateMrr

SpecMRR == Idle /\ [][NextMRR]_vars

InitMV ==
    /\ pc = "input"
    /\ members_data = <<Member(1, <<>>)>>
    /\ subs_df = <<>>
    /\ mrr_result = Unset
    /\ orders = <<>>
    /\ edu_result = FALSE
    /\ activity = Unset
    /\ record = Unset
    /\ activities_data = <<>>
    /\ activities_df = <<>>
    /\ baseline = Unset
    /\ window = Unset
    /\ result = <<>>
    /\ now = Date(1, 1, 0)
    /\ rerun = Unset
    /\ growth_activities = <<>>
    /\ membership_data = Unset
    /\ members_df = <<>>
    /\ all_members = <<>>
    /\ raised = "none"
    /\ legacy_df = <<>>
    /\ today = 0
    /\ days = 0
    /\ unique_new = <<>>
    /\ recent_orders_value = Unset
    /\ aggregate = "none"
    /\ session_state = NewSession
    /\ remote = <<>>
    /\ display = <<>>
    /\ refetched = FALSE
    /\ stored_from = <<>>

NextMV ==
    \/ \E p \in Prices, u \in Units, c \in Counts : AddPlanSubscription(p, u, c)
    \/ ProcessMembersData
    \/ CalculateMrr

SpecMV == InitMV /\ [][NextMV]_vars

(* process_subscription_activities on one raw activity *)

ActivityUnits == Units \cup {"null"}
ActivityPrices == {None} \cup {Num(p) : p \in Prices}
ActivityOrders == {<<>>} \cup {<<k>> : k \in ActivityCoupons}

Subscriptions ==
    {NoSubscription} \cup
    {Subscription(p, u, c, os) :
        p \in ActivityPrices, u \in ActivityUnits, c \in Counts,
        os \in ActivityOrders}

ReceiveActivity ==
    /\ pc = "input"
    /\ \E ty \in ActivityTypes, m \in 1..MaxMonth, e \in Emails,
          sub \in Subscriptions : activity' = RawActivity(ty, m, e, sub)
    /\ pc' = "received"
    /\ UNCHANGED <<record, MemberVars, EduVars, ReconVars, ClockVars,
                   GrowthVars, ViewVars, ErrVars, LegacyVars, NewVars, OrderVars, CallVars, DashVars>>

ProcessActivity ==
    /\ pc = "received"
    /\ record' = process_subscription_activities(<<activity>>)[1]
    /\ pc' = "done"
    /\ UNCHANGED <<activity, MemberVars, EduVars, ReconVars, ClockVars,
                   GrowthVars, ViewVars, ErrVars, LegacyVars, NewVars, OrderVars, CallVars, DashVars>>

NextAct ==
    \/ ReceiveActivity
    \/ ProcessActivity

SpecAct == Idle /\ [][NextAct]_vars

(* process_subscription_activities and calculate_monthly_mrr_changes on a  *)
(* batch                                                                   *)

PlainPlan(p, u) == Subscription(Num(p), u, Num(1), <<>>)

\* the kinds of activity tried in a batch: <<type, subscription>>
BatchKinds ==
    {<<"new_subscription", PlainPlan(5000, "month")>>,
     <<"upgrade", PlainPlan(1200, "year")>>,
     <<"subscription_deleted", PlainPlan(5000, "month")>>,
     <<"renewal", PlainPlan(5000, "month")>>,
     <<"new_subscription", Subscription(Num(5000), "month", Num(1), <<"Education">>)>>,
     <<"free_signup", NoSubscription>>}

\* the baseline, in cents, that the caller wants the window to start from
BaselineCents == {10000}

AppendActivity(kind, m) ==
    /\ pc = "input"
    /\ Len(activities_data) < MaxActs
    /\ activities_data' =
           Append(activities_data, RawActivity(kind[1], m, "ann@example.com", kind[2]))
    /\ UNCHANGED <<pc, activities_df, baseline, window, result, MemberVars,
                   EduVars, ActVars, ClockVars, GrowthVars, ViewVars,
                   ErrVars, LegacyVars, NewVars, OrderVars, CallVars, DashVars>>

ProcessSubscriptionActivities ==
    /\ pc = "input"
    /\ IF ProcessSubscriptionActivitiesRaises(activities_data)
       THEN /\ raised' = "OverflowError"
            /\ pc' = "raised"
            /\ UNCHANGED activities_df
       ELSE /\ raised' = "none"
            /\ activities_df' = process_subscription_activities(activities_data)
            /\ pc' = "processed"
    /\ aggregate' = "process_subscription_activities"
    /\ UNCHANGED <<activities_data, baseline, window, result, MemberVars,
                   EduVars, ActVars, ClockVars, GrowthVars, ViewVars, LegacyVars, NewVars, OrderVars, DashVars>>

StartDates == {Date(m, 15, h) : m \in 1..MaxMonth, h \in {0, 12}}
EndDates == {Date(m, 1, 0) : m \in 1..MaxMonth}

\* the function has no parameter for the baseline: b is what the caller holds
CalculateMonthlyMrrChanges ==
    /\ pc = "processed"
    /\ \E b \in BaselineCents, start_date \in StartDates, end_date \in EndDates :
           /\ start_date.month <= end_date.month
           /\ baseline' = Frac(b, 100)
           /\ window' = <<start_date, end_date>>
           /\ result' = calculate_monthly_mrr_changes(activities_df, start_date,
                                                       end_date)
    /\ pc' = "done"
    /\ aggregate' = "calculate_monthly_mrr_changes"
    /\ UNCHANGED <<activities_data, activities_df, MemberVars, EduVars,
                   ActVars, ClockVars, GrowthVars, ViewVars, ErrVars, LegacyVars, NewVars, OrderVars, DashVars>>

NextRecon ==
    \/ \E kind \in BatchKinds, m \in 1..MaxMonth : AppendActivity(kind, m)
    \/ ProcessSubscriptionActivities
    \/ CalculateMonthlyMrrChanges

SpecRecon == Idle /\ [][NextRecon]_vars

(* calculate_monthly_mrr_changes called twice, end_date left at its default *)

\* the kinds of activity tried under the running clock
ClockKinds ==
    {<<"new_subscription", PlainPlan(5000, "month")>>,
     <<"subscription_deleted", PlainPlan(5000, "month")>>}

\* time passes: half a month at a time
Tick ==
    /\ pc \in {"processed", "done"}
    /\ now.month < MaxMonth
    /\ now' = IF now.day = 1 THEN [now EXCEPT !.day = 16]
              ELSE Date(now.month + 1, 1, 0)
    /\ UNCHANGED <<pc, rerun, MemberVars, EduVars, ActVars, ReconVars,
                   GrowthVars, ViewVars, ErrVars, LegacyVars, NewVars, OrderVars, CallVars, DashVars>>

CalculateMonthlyMrrChangesToday ==
    /\ pc = "processed"
    /\ \E b \in BaselineCents, start_date \in StartDates :
           /\ DateLeq(start_date, now)
           /\ baseline' = Frac(b, 100)
           /\ window' = <<start_date, None>>
           /\ result' = calculate_monthly_mrr_changes(activities_df, start_date, None)
    /\ pc' = "done"
    /\ aggregate' = "calculate_monthly_mrr_changes"
    /\ UNCHANGED <<activities_data, activities_df, MemberVars, EduVars,
                   ActVars, ClockVars, GrowthVars, ViewVars, ErrVars, LegacyVars, NewVars, OrderVars, DashVars>>

\* the same call again, on the same table with the same arguments
CalculateAgain ==
    /\ pc = "done"
    /\ rerun' = calculate_monthly_mrr_changes(activities_df, window[1], window[2])
    /\ pc' = "again"
    /\ aggregate' = "calculate_monthly_mrr_changes"
    /\ UNCHANGED <<now, MemberVars, EduVars, ActVars, ReconVars, GrowthVars,
                   ViewVars, ErrVars, LegacyVars, NewVars, OrderVars, DashVars>>

NextClock ==
    \/ \E kind \in ClockKinds, m \in 1..MaxMonth : AppendActivity(kind, m)
    \/ ProcessSubscriptionActivities
    \/ Tick
    \/ CalculateMonthlyMrrChangesToday
    \/ CalculateAgain

SpecClock == Idle /\ [][NextClock]_vars

(* show_member_growth on a subscriptions table and an activities table *)

\* a member holding one subscription of their own
Holder(i, act) ==
    [id |-> i, email |-> MemberEmail(i), fullName |-> MemberName(i),
     orders |-> <<>>,
     subscriptions |-> <<RawSub(i, act, 1200, "year", Num(1))>>]

\* the member lists tried: nobody, one active member, two active members
GrowthMembers ==
    {<<>>, <<Holder(1, TRUE)>>, <<Holder(1, TRUE), Holder(2, TRUE)>>}

GrowthTypes == {"new_order", "subscription_deactivated", "renewal"}
GrowthMonths == {1, 2, 3}

LoadMembers ==
    /\ pc = "input"
    /\ \E ms \in GrowthMembers :
           /\ members_data' = ms
           /\ members_df' = MembersTable(ms)
           /\ subs_df' = process_members_data(ms)
    /\ pc' = "flattened"
    /\ UNCHANGED <<mrr_result, all_members, EduVars, ActVars, ReconVars,
                   ClockVars, GrowthVars, ErrVars, LegacyVars, NewVars, OrderVars, CallVars, DashVars>>

AppendGrowthActivity(ty, m, sid) ==
    /\ pc = "flattened"
    /\ Len(growth_activities) < MaxGrowthActs
    /\ growth_activities' = Append(growth_activities, GrowthActivity(ty, m, sid))
    /\ UNCHANGED <<pc, membership_data, MemberVars, EduVars, ActVars,
                   ReconVars, ClockVars, ViewVars, ErrVars, LegacyVars, NewVars, OrderVars, CallVars, DashVars>>

\* the runs hand over activities of both kinds, so that the fall-backs to the
\* subscription dates (lines 66-69 and 75-85) are not taken
ShowMemberGrowth ==
    /\ pc = "flattened"
    /\ TypeActivities(growth_activities, activity_types.new) # <<>>
    /\ TypeActivities(growth_activities, activity_types.churned) # <<>>
    /\ membership_data' = show_member_growth(subs_df, growth_activities)
    /\ pc' = "done"
    /\ UNCHANGED <<growth_activities, MemberVars, EduVars, ActVars,
                   ReconVars, ClockVars, ViewVars, ErrVars, LegacyVars, NewVars, OrderVars, CallVars, DashVars>>

NextGrowth ==
    \/ LoadMembers
    \/ \E ty \in GrowthTypes, m \in GrowthMonths, sid \in SubIds :
           AppendGrowthActivity(ty, m, sid)
    \/ ShowMemberGrowth

SpecGrowth == Idle /\ [][NextGrowth]_vars

(* one member's orders classified by process_subscription_activities and  *)
(* by is_education_member                                                  *)

\* the orders tried for the member
FlagOrders ==
    {Order(c, t, k) : c \in 0..MaxTime, t \in Totals, k \in {"", "Education"}}

FlagEmails == {"ann@example.com", "bob@usm.maine.edu"}

\* the coupon codes of the orders, as the activity's subscription lists them
CouponsOf(os) == [i \in 1..Len(os) |-> os[i].coupon]

\* an activity of the member, on a subscription holding the member's orders
ReceiveMemberActivity ==
    /\ pc = "input"
    /\ \E e \in FlagEmails :
           activity' = RawActivity("new_subscription", 1, e,
                                   Subscription(Num(1200), "year", Num(1),
                                                CouponsOf(orders)))
    /\ pc' = "received"
    /\ UNCHANGED <<record, MemberVars, EduVars, ReconVars, ClockVars,
                   GrowthVars, ViewVars, ErrVars, LegacyVars, NewVars, OrderVars, CallVars, DashVars>>

ClassifyMember ==
    /\ pc = "done"
    /\ edu_result' = is_education_member(orders)
    /\ pc' = "classified"
    /\ UNCHANGED <<orders, MemberVars, ActVars, ReconVars, ClockVars,
                   GrowthVars, ViewVars, ErrVars, LegacyVars, NewVars, OrderVars, CallVars, DashVars>>

NextFlag ==
    \/ \E o \in FlagOrders : AddOrder(o)
    \/ ReceiveMemberActivity
    \/ ProcessActivity
    \/ ClassifyMember

SpecFlag == Idle /\ [][NextFlag]_vars

(* the two copies of process_subscription_activities on one batch *)

\* the kinds of activity tried: without subscription, on a plan, and with a
\* subscription whose plan data is missing
EmitKinds ==
    {<<"free_signup", NoSubscription>>,
     <<"team_member_added", NoSubscription>>,
     <<"auto_renew_disabled", NoSubscription>>,
     <<"member_updated", NoSubscription>>,
     <<"new_subscription", PlainPlan(5000, "month")>>,
     <<"renewal", Subscription(None, "null", None, <<>>)>>}

LegacyProcessSubscriptionActivities ==
    /\ pc = "processed"
    /\ IF LegacyRaises(activities_data)
       THEN /\ raised' = "OverflowError"
            /\ pc' = "raised"
            /\ UNCHANGED legacy_df
       ELSE /\ raised' = "none"
            /\ legacy_df' =
                   data_processing_process_subscription_activities(activities_data)
            /\ pc' = "done"
    /\ UNCHANGED <<MemberVars, EduVars, ActVars, ReconVars, ClockVars,
                   GrowthVars, ViewVars, NewVars, OrderVars, CallVars, DashVars>>

NextEmit ==
    \/ \E kind \in EmitKinds, m \in 1..MaxMonth : AppendActivity(kind, m)
    \/ ProcessSubscriptionActivities
    \/ LegacyProcessSubscriptionActivities

SpecEmit == Idle /\ [][NextEmit]_vars

(* process_members_data and prepare_all_members_view *)

\* the creation times tried for the subscriptions of the view
ViewTimes == {1, 2}

\* a subscription of its own, created at t, for the member added last
AddDatedSubscription(act, t) ==
    /\ pc = "input"
    /\ members_data # <<>>
    /\ RowCount(members_data) < MaxSubs
    /\ AppendSubscription([RawSub(RowCount(members_data) + 1, act, 1200, "year",
                                  Num(1)) EXCEPT !.createdAt = t])
    /\ UNCHANGED <<pc, subs_df, mrr_result, EduVars, ActVars, ReconVars,
                   ClockVars, GrowthVars, ViewVars, ErrVars, LegacyVars, NewVars, OrderVars, CallVars, DashVars>>

PrepareAllMembersView ==
    /\ pc = "flattened"
    /\ \E sorted \in SortValues(subs_df) :
           all_members' = prepare_all_members_view(members_df, sorted)
    /\ pc' = "done"
    /\ aggregate' = "prepare_all_members_view"
    /\ UNCHANGED <<members_df, MemberVars, EduVars, ActVars, ReconVars,
                   ClockVars, GrowthVars, ErrVars, LegacyVars, NewVars, OrderVars, DashVars>>

NextView ==
    \/ \E os \in MemberOrders : AddMember(os)
    \/ \E act \in BOOLEAN, t \in ViewTimes : AddDatedSubscription(act, t)
    \/ ProcessMembersData
    \/ PrepareAllMembersView

SpecView == Idle /\ [][NextView]_vars

(* process_members_data and prepare_new_members *)

\* the clock values and window lengths tried, in days
Todays == {2, 3}
Windows == {1, 2}

\* the creation times tried, in days
NewTimes == {0, 1, 2}

PrepareNewMembers(d) ==
    /\ pc = "flattened"
    /\ \E clock \in Todays :
           /\ today' = clock
           /\ unique_new' = prepare_new_members(subs_df, d, clock)
    /\ days' = d
    /\ pc' = "done"
    /\ aggregate' = "prepare_new_members"
    /\ UNCHANGED <<MemberVars, EduVars, ActVars, ReconVars, ClockVars,
                   GrowthVars, ViewVars, ErrVars, LegacyVars, OrderVars, DashVars>>

NextNew ==
    \/ AddMember(<<>>)
    \/ \E sid \in SubIds : AddSubscription(sid, TRUE)
    \/ \E t \in NewTimes : AddDatedSubscription(TRUE, t)
    \/ ProcessMembersData
    \/ \E d \in Windows : PrepareNewMembers(d)

SpecNew == Idle /\ [][NextNew]_vars

(* calculate_recent_orders on the raw member records *)

\* an order as the members query returns it, without coupon
StatusOrder(c, t, st) ==
    [createdAt |-> c, totalCents |-> t, coupon |-> "", status |-> st]

\* the orders tried: before, on and after the cutoffs, completed or not
RecentOrders ==
    {StatusOrder(c, t, st) : c \in NewTimes, t \in {500, 1999},
                             st \in {"completed", "suspended"}}

RECURSIVE OrderCount(_)
OrderCount(ms) ==
    IF ms = <<>> THEN 0 ELSE Len(Head(ms).orders) + OrderCount(Tail(ms))

\* one more order for the member added last
AddMemberOrder(o) ==
    /\ pc = "input"
    /\ members_data # <<>>
    /\ OrderCount(members_data) < MaxOrders
    /\ members_data' =
           [members_data EXCEPT ![Len(members_data)].orders = Append(@, o)]
    /\ UNCHANGED <<pc, subs_df, mrr_result, EduVars, ActVars, ReconVars,
                   ClockVars, GrowthVars, ViewVars, ErrVars, LegacyVars,
                   NewVars, OrderVars, CallVars, DashVars>>

\* the snapshot was fetched before the call: no order is dated after the
\* clock reading
CalculateRecentOrders(d) ==
    /\ pc = "input"
    /\ \E clock \in Todays :
           /\ \A i \in 1..Len(members_data) :
                  \A k \in 1..Len(members_data[i].orders) :
                      members_data[i].orders[k].createdAt <= clock
           /\ today' = clock
           /\ recent_orders_value' = calculate_recent_orders(members_data, d, clock)
    /\ days' = d
    /\ pc' = "done"
    /\ aggregate' = "calculate_recent_orders"
    /\ UNCHANGED <<MemberVars, unique_new, EduVars, ActVars, ReconVars,
                   ClockVars, GrowthVars, ViewVars, ErrVars, LegacyVars, DashVars>>

NextOrders ==
    \/ AddMember(<<>>)
    \/ \E o \in RecentOrders : AddMemberOrder(o)
    \/ \E d \in Windows : CalculateRecentOrders(d)

SpecOrders == Idle /\ [][NextOrders]_vars

(* every aggregate of the data layer, on member data or on an activity     *)
(* batch that may be empty                                                  *)

NextEmpty ==
    \/ activities_data = <<>> /\ AddMember(<<>>)
    \/ \E sid \in SubIds : AddSubscription(sid, TRUE)
    \/ ProcessMembersData
    \/ CalculateMrr
    \/ PrepareAllMembersView
    \/ \E d \in Windows : PrepareNewMembers(d)
    \/ \E d \in Windows : CalculateRecentOrders(d)
    \/ \E kind \in ClockKinds, m \in 1..MaxMonth :
           members_data = <<>> /\ AppendActivity(kind, m)
    \/ ProcessSubscriptionActivities
    \/ CalculateMonthlyMrrChanges

SpecEmpty == Idle /\ [][NextEmpty]_vars

(* runs of the dashboard script in one session, while members join and     *)
(* days pass                                                                *)

MemberJoins ==
    /\ Len(remote) < MaxRemote
    /\ remote' = Append(remote, RemoteMember(Len(remote) + 1))
    /\ UNCHANGED <<pc, today, days, unique_new, session_state, display,
                   refetched, stored_from, MemberVars, EduVars, ActVars,
                   ReconVars, ClockVars, GrowthVars, ViewVars, ErrVars,
                   LegacyVars, OrderVars, CallVars>>

DayPasses ==
    /\ today < MaxDay
    /\ today' = today + 1
    /\ UNCHANGED <<pc, days, unique_new, DashVars, MemberVars, EduVars,
                   ActVars, ReconVars, ClockVars, GrowthVars, ViewVars,
                   ErrVars, LegacyVars, OrderVars, CallVars>>

\* one run of the script: button tells whether the refresh button was
\* pressed, fail is the page whose request fails (0: none)
RunDashboard(button, fail) ==
    LET refresh_data == Expired(session_state, today) \/ button
        cleared == IF button THEN ClearCaches(session_state) ELSE session_state
        fetch == cleared.members_data = Absent \/ refresh_data
        members == IF fetch THEN fetch_all_members(remote, fail)
                   ELSE cleared.members_data.v
        loaded == IF fetch
                  THEN [cleared EXCEPT !.members_data = Cached(members),
                                       !.last_fetch_time = Cached(today)]
                  ELSE cleared
        final == StoreDerived(loaded, members, today)
    IN  /\ fail \in 0..PageCount(remote)
        /\ fetch \/ fail = 0
        /\ refetched' = fetch
        /\ IF members = <<>>
           THEN \* st.error and st.stop(): nothing is stored or shown
                /\ session_state' = cleared
                /\ display' = <<>>
                /\ UNCHANGED stored_from
           ELSE /\ session_state' = final
                /\ display' = Shown(final, members, today)
                /\ stored_from' =
                       IF fetch
                       THEN [pages |-> [k \in 1..PageCount(remote) |->
                                           PageNodes(remote, k)],
                             failed |-> fail]
                       ELSE stored_from
        /\ UNCHANGED <<pc, remote, NewVars, MemberVars, EduVars, ActVars,
                       ReconVars, ClockVars, GrowthVars, ViewVars, ErrVars,
                       LegacyVars, OrderVars, CallVars>>

NextDash ==
    \/ MemberJoins
    \/ DayPasses
    \/ \E button \in BOOLEAN, fail \in 0..MaxRemote : RunDashboard(button, fail)

SpecDash == Idle /\ [][NextDash]_vars

(* process_subscription_activities and process_members_data on batches    *)
(* that may hold a malformed timestamp; a run feeds one of the two         *)

NextTimestamps ==
    \/ /\ members_data = <<>>
       /\ \E kind \in ClockKinds, m \in 1..OutOfRange : AppendActivity(kind, m)
    \/ /\ members_data = <<>>
       /\ activities_data # <<>>
       /\ ProcessSubscriptionActivities
    \/ /\ activities_data = <<>>
       /\ AddMember(<<>>)
    \/ \E t \in {1, OutOfRange} : AddDatedSubscription(TRUE, t)
    \/ /\ members_data # <<>>
       /\ ProcessMembersData

SpecTimestamps == Idle /\ [][NextTimestamps]_vars

----------------------------------------------------------------------------
(* Properties of calculate_monthly_mrr_changes (SpecRecon)                 *)

ResultMonths == {result[k].month : k \in 1..Len(result)}

\* everything the activities of a month add up to, whatever their category
RECURSIVE MonthDelta(_, _)
MonthDelta(df, month) ==
    IF df = <<>> THEN RInt(0)
    ELSE LET rest == MonthDelta(Tail(df), month)
         IN  IF Head(df).month = month
             THEN RAdd(Head(df).mrr_impact_dollars, rest)
             ELSE rest

\* C1: for consecutive months m, m+1 of the output, the Starting MRR row of
\* m+1 equals the Total MRR row of m.
C1_StartingIsPreviousTotal ==
    pc = "done" =>
        \A m \in ResultMonths :
            (m + 1) \in ResultMonths =>
                Cell(result, m + 1, "Starting MRR") = Cell(result, m, "Total MRR")

\* two consecutive months, each with a non-zero net change
C1_Witness ==
    /\ pc = "done"
    /\ \E m \in ResultMonths :
           /\ (m + 1) \in ResultMonths
           /\ Cell(result, m, "Total MRR") # Cell(result, m, "Starting MRR")
           /\ Cell(result, m + 1, "Total MRR") # Cell(result, m + 1, "Starting MRR")

\* C2: for every month of the output, Total MRR = Starting MRR + the sum of
\* mrr_impact_dollars of all activities of that month, over every category,
\* those without a row of their own included.
C2_TotalIsStartingPlusDeltas ==
    pc = "done" =>
        \A m \in ResultMonths :
            Cell(result, m, "Total MRR") =
                RAdd(Cell(result, m, "Starting MRR"), MonthDelta(activities_df, m))

\* a month holding an activity of a category without a row, a cancellation
\* and a new member
C2_Witness ==
    /\ pc = "done"
    /\ \E m \in ResultMonths :
           /\ \E i \in 1..Len(activities_df) :
                  /\ activities_df[i].month = m
                  /\ activities_df[i].category \notin SummedCategories
           /\ \E i \in 1..Len(activities_df) :
                  /\ activities_df[i].month = m
                  /\ activities_df[i].category \in {"Cancellations", "New members"}
           /\ MonthDelta(activities_df, m) # RInt(0)

\* C3: the Starting MRR of the first month of the window is the baseline the
\* caller supplies.
C3_FirstStartingIsBaseline ==
    (pc = "done" /\ result # <<>>) =>
        Cell(result, window[1].month, "Starting MRR") = baseline

\* C12: for start_date <= end_date and a non-empty activity table, the output
\* holds every calendar month from the month of start_date through the month
\* of end_date, each exactly once per category, and a (month, category)
\* without activity has delta 0.
C12_EveryMonthOncePerCategory ==
    (pc = "done" /\ activities_df # <<>> /\ DateLeq(window[1], window[2])) =>
        /\ ResultMonths = window[1].month .. window[2].month
        /\ \A m \in ResultMonths :
               \A i \in 1..Len(categories) :
                   /\ Cardinality({k \in 1..Len(result) :
                                      /\ result[k].month = m
                                      /\ result[k].category = categories[i]}) = 1
                   /\ (/\ categories[i] \notin {"Starting MRR", "Total MRR"}
                       /\ ~HasGroup(activities_df, m, categories[i]))
                          => Cell(result, m, categories[i]) = RInt(0)

\* everything the activities of the months first .. last add up to
RECURSIVE WindowDelta(_, _, _)
WindowDelta(df, first, last) ==
    IF first > last THEN RInt(0)
    ELSE RAdd(MonthDelta(df, first), WindowDelta(df, first + 1, last))

\* C27: for every window, the Total MRR of the window's last month is the
\* Starting MRR of its first month plus the mrr_impact_dollars of all
\* activities whose month lies inside the window, and the output has no row
\* that an activity of a month outside the window has changed.
C27_Telescopes ==
    (pc = "done" /\ activities_df # <<>> /\ DateLeq(window[1], window[2])) =>
        LET first == window[1].month
            last == window[2].month
        IN  /\ {first, last} \subseteq ResultMonths
            /\ Cell(result, last, "Total MRR") =
                   RAdd(Cell(result, first, "Starting MRR"),
                        WindowDelta(activities_df, first, last))
            /\ \A m \in ResultMonths :
                   /\ m \in first..last
                   /\ \A c \in SummedCategories :
                          Cell(result, m, c) = GroupSum(activities_df, m, c)

\* C13: a second call of calculate_monthly_mrr_changes on the same table with
\* the same arguments returns what the first call returned, whatever the wall
\* clock did in between, end_date left at its default included.
C13_SameArgumentsSameOutput ==
    pc = "again" => rerun = result

----------------------------------------------------------------------------
(* Properties of show_member_growth (SpecGrowth)                           *)

\* C14: the most recent month's Total Active is the current active member
\* count, and every earlier month's total is the following month's total
\* minus the following month's new members plus the following month's
\* churned members.
C14_BackwardReconstruction ==
    (pc = "done" /\ membership_data # <<>>) =>
        LET n == Len(membership_data)
            changes == MonthlyChanges(growth_activities)
        IN  /\ membership_data[n].total_active = CurrentActiveCount(subs_df)
            /\ \A k \in 1..(n - 1) :
                   membership_data[k].total_active =
                       membership_data[k + 1].total_active
                       - changes[membership_data[k + 1].month].new
                       + changes[membership_data[k + 1].month].churned

----------------------------------------------------------------------------
(* Properties of the two copies of process_subscription_activities         *)
(* (SpecEmit)                                                              *)

\* the category stated for an activity without subscription data
TableUnsubscribed(type) ==
    CASE type = "free_signup" -> "Free signups"
      [] ContainsTeamMember(type) -> "Team member changes"
      [] ContainsAutoRenew(type) -> "Subscription changes"
      [] OTHER -> "Other"

\* df holds one record per activity of data, in the order of data, and the
\* record of an activity without subscription has impact 0 and the category
\* of its type
EmitsEveryActivity(df, data) ==
    /\ Len(df) = Len(data)
    /\ \A i \in 1..Len(data) :
           /\ df[i].type = data[i].type
           /\ df[i].month = data[i].createdAt
           /\ ~data[i].subscription.some =>
                  /\ df[i].mrr_impact_cents = RInt(0)
                  /\ df[i].mrr_impact_dollars = RInt(0)
                  /\ df[i].category = TableUnsubscribed(data[i].type)

\* C16: process_subscription_activities emits exactly one record per raw
\* activity, in input order, never dropping one for missing subscription or
\* plan data; an activity without subscription data gets impact 0 and the
\* category of its type.  Stated of both copies of the function.
C16_OneRecordPerActivity ==
    pc = "done" =>
        /\ EmitsEveryActivity(activities_df, activities_data)
        /\ EmitsEveryActivity(legacy_df, activities_data)

----------------------------------------------------------------------------
(* The two education rules on one member (SpecFlag)                        *)

\* C20: for the same member and orders, process_subscription_activities
\* flags the activity as education exactly when is_education_member returns
\* true for the member.
C20_SameEducationRule ==
    pc = "classified" => (record.is_education <=> edu_result)

----------------------------------------------------------------------------
(* Properties of the handling of malformed timestamps (SpecTimestamps)     *)

\* the records of a batch whose timestamp can be converted
WellFormedActivities(data) ==
    SelectSeq(data, LAMBDA a : ~MalformedTimestamp(a.createdAt))

WellFormedMembers(ms) ==
    [i \in 1..Len(ms) |->
        [ms[i] EXCEPT !.subscriptions =
            SelectSeq(@, LAMBDA sub : ~MalformedTimestamp(sub.createdAt))]]

\* C15: a record with a malformed timestamp is skipped on its own:
\* process_subscription_activities and process_members_data do not raise and
\* return every other record of the batch.
C15_MalformedTimestampSkipped ==
    pc # "input" =>
        /\ raised = "none"
        /\ activities_data # <<>> =>
               activities_df =
                   process_subscription_activities(WellFormedActivities(activities_data))
        /\ members_data # <<>> =>
               subs_df = process_members_data(WellFormedMembers(members_data))

----------------------------------------------------------------------------
(* Properties of prepare_all_members_view (SpecView)                       *)

ViewRowsOf(id) == {k \in 1..Len(all_members) : all_members[k].id = id}
SubsRowsOf(id) == {k \in 1..Len(subs_df) : subs_df[k].member_id = id}

\* the rows of a member that no other row of theirs is newer than
NewestRowsOf(id) ==
    {k \in SubsRowsOf(id) :
        \A j \in SubsRowsOf(id) : subs_df[j].created_at <= subs_df[k].created_at}

\* C17: the view holds exactly one row per member of the members table, and
\* a member with several subscriptions carries the active, plan,
\* subscription_id and is_education of the subscription of greatest
\* created_at.
C17_OneRowNewestSubscription ==
    pc = "done" =>
        \A i \in 1..Len(members_df) :
            /\ Cardinality(ViewRowsOf(members_df[i].id)) = 1
            /\ Cardinality(SubsRowsOf(members_df[i].id)) > 1 =>
                   \A k \in ViewRowsOf(members_df[i].id) :
                       \E n \in NewestRowsOf(members_df[i].id) :
                           all_members[k].subscription =
                               SubscriptionColumns(subs_df[n])

\* C18: every member of the members table appears in the view, a member
\* without subscription with null subscription fields, also when the
\* subscriptions table is empty.
C18_LeftJoinFromMembers ==
    pc = "done" =>
        \A i \in 1..Len(members_df) :
            /\ ViewRowsOf(members_df[i].id) # {}
            /\ SubsRowsOf(members_df[i].id) = {} =>
                   \A k \in ViewRowsOf(members_df[i].id) :
                       all_members[k].subscription = None

----------------------------------------------------------------------------
(* Properties of process_members_data (SpecMRR)                             *)

RECURSIVE NestedCount(_)
\* the number of subscriptions nested under the members of ms
NestedCount(ms) ==
    IF ms = <<>> THEN 0
    ELSE Len(Head(ms).subscriptions) + NestedCount(Tail(ms))

\* the position in the subscriptions table of the j-th subscription of the
\* i-th member
NestedPosition(i, j) == NestedCount(SubSeq(members_data, 1, i - 1)) + j

\* C22: process_members_data emits one member row per raw member and one
\* subscription row per nested subscription, and every subscription row
\* carries the id, name, email and education flag of the member it was
\* nested under.
C22_OneRowPerSubscription ==
    pc = "flattened" =>
        /\ Len(members_df) = Len(members_data)
        /\ \A i \in 1..Len(members_data) : members_df[i].id = members_data[i].id
        /\ Len(subs_df) = NestedCount(members_data)
        /\ \A i \in 1..Len(members_data) :
               \A j \in 1..Len(members_data[i].subscriptions) :
                   LET row == subs_df[NestedPosition(i, j)]
                       member == members_data[i]
                   IN  /\ row.subscription_id = member.subscriptions[j].id
                       /\ row.member_id = member.id
                       /\ row.member_name = member.fullName
                       /\ row.member_email = member.email
                       /\ row.is_education = members_df[i].is_education
                       /\ row.is_education = is_education_member(member.orders)

\* two members flattened, the first an education member with a
\* subscription, the second with two subscriptions
C22_Witness ==
    /\ pc = "flattened"
    /\ Len(members_data) = 2
    /\ is_education_member(members_data[1].orders)
    /\ Len(members_data[1].subscriptions) = 1
    /\ Len(members_data[2].subscriptions) = 2
    /\ Len(subs_df) = 3

----------------------------------------------------------------------------
(* Properties of prepare_new_members (SpecNew)                              *)

\* the rows of the subscriptions table created at or after the cutoff
InWindow == {i \in 1..Len(subs_df) : subs_df[i].created_at >= today - days}

\* C23: prepare_new_members returns the subscriptions created at or after
\* now - days, one row per subscription id: no two rows share an id, no row
\* is older than the cutoff, and every id with a row in the window is there.
C23_NewSubscriptionsOncePerId ==
    pc = "done" =>
        /\ \A k, l \in 1..Len(unique_new) :
               unique_new[k].subscription_id = unique_new[l].subscription_id
                   => k = l
        /\ \A k \in 1..Len(unique_new) :
               /\ unique_new[k].created_at >= today - days
               /\ \E i \in InWindow : subs_df[i] = unique_new[k]
        /\ \A i \in InWindow :
               \E k \in 1..Len(unique_new) :
                   unique_new[k].subscription_id = subs_df[i].subscription_id

\* a table with two rows of one subscription inside the window, a row on
\* the cutoff and a row before it
C23_Witness ==
    /\ pc = "done"
    /\ \E i, j \in InWindow :
           i # j /\ subs_df[i].subscription_id = subs_df[j].subscription_id
    /\ \E i \in InWindow : subs_df[i].created_at = today - days
    /\ \E i \in 1..Len(subs_df) : i \notin InWindow
    /\ unique_new # <<>>

----------------------------------------------------------------------------
(* Properties of calculate_recent_orders (SpecOrders)                       *)

\* the orders of all members, as <<member, order>> positions
OrderPositions ==
    {<<i, k>> : i \in 1..Len(members_data), k \in 1..MaxOrders + 1} \cap
    {p \in (1..Len(members_data)) \X (1..MaxOrders + 1) :
        p[2] <= Len(members_data[p[1]].orders)}

OrderAt(p) == members_data[p[1]].orders[p[2]]

\* completed, and dated within the days before the clock reading
InTrailingWindow(o) ==
    o.status = "completed" /\ today - days <= o.createdAt /\ o.createdAt <= today

RECURSIVE SumCents(_)
SumCents(S) ==
    IF S = {} THEN 0
    ELSE LET p == CHOOSE q \in S : TRUE
         IN  OrderAt(p).totalCents + SumCents(S \ {p})

----------------------------------------------------------------------------
(* Properties of the aggregates on empty input (SpecEmpty)                  *)

\* C26: on empty input no aggregate raises and each returns a zero or empty
\* result: calculate_mrr (0, 0, 0, 0), calculate_recent_orders 0, and the
\* four table functions an empty table.
C26_EmptyInEmptyOut ==
    /\ (aggregate = "calculate_mrr" /\ subs_df = <<>>) =>
           mrr_result = MrrReturn("ok", RInt(0), 0, 0, 0)
    /\ (aggregate = "calculate_recent_orders" /\ members_data = <<>>) =>
           recent_orders_value = RInt(0)
    /\ (aggregate = "prepare_new_members" /\ subs_df = <<>>) =>
           unique_new = <<>>
    /\ (aggregate = "prepare_all_members_view" /\ subs_df = <<>>) =>
           all_members = <<>>
    /\ (aggregate = "process_subscription_activities" /\ activities_data = <<>>) =>
           (pc = "processed" /\ activities_df = <<>>)
    /\ (aggregate = "calculate_monthly_mrr_changes" /\ activities_df = <<>>) =>
           result = <<>>
    /\ (aggregate # "none" /\ members_data = <<>> /\ activities_data = <<>>) =>
           raised = "none"

\* the reconciliation has been called on the empty table that
\* process_subscription_activities returned for an empty batch
C26_Witness ==
    /\ aggregate = "calculate_monthly_mrr_changes"
    /\ activities_data = <<>>
    /\ activities_df = <<>>
    /\ window # Unset
    /\ result = <<>>

----------------------------------------------------------------------------
(* Properties of the dashboard session (SpecDash)                           *)

\* C28: a run that fetched the member data again, after the refresh button
\* or after the cache lifetime, shows every derived table (all members, new
\* subscriptions of 30 and of 90 days) computed from the snapshot it has
\* just fetched, never one computed from an older snapshot.
C28_DerivedCachesFollowRefetch ==
    (display # <<>> /\ refetched) =>
        /\ display.all_members = AllMembersTable(display.members_data)
        /\ display.new_subs_30d =
               NewSubsTable(display.members_data, display.shown_at - 30)
        /\ display.new_subs_90d =
               NewSubsTable(display.members_data, display.shown_at - 90)

RECURSIVE Concatenation(_)
Concatenation(pages) ==
    IF pages = <<>> THEN <<>> ELSE Head(pages) \o Concatenation(Tail(pages))

\* C29: the snapshot stored in the session is the concatenation, in page
\* order, of all pages of one complete pagination run; a run in which a
\* page request failed leaves no non-empty prefix stored.
C29_SnapshotIsCompleteRun ==
    session_state.members_data # Absent =>
        /\ stored_from.failed = 0
        /\ session_state.members_data.v = Concatenation(stored_from.pages)

----------------------------------------------------------------------------
(* Properties of calculate_mrr (SpecMRR, SpecMV)                            *)

Contributes(row) == row.active = TRUE /\ row.is_education = FALSE

\* the subscription ids that have an active, non-education row
PayingIds(df) == {df[i].subscription_id : i \in {k \in 1..Len(df) : Contributes(df[k])}}

\* price / (multiplier(unit) * count), 0 or null count taken as 1
ExpectedMonthlyValue(price, unit, count) ==
    LET c == IF count.t = "num" /\ count.v > 0 THEN count.v ELSE 1
    IN  IF unit = "week" THEN Frac(4 * price, c)
        ELSE IF unit = "month" THEN Frac(price, c)
        ELSE Frac(price, 12 * c)

CatalogValue(sid) ==
    ExpectedMonthlyValue(CatalogPlan(sid).price, CatalogPlan(sid).unit,
                         CatalogPlan(sid).count)

RECURSIVE SumOverIds(_)
SumOverIds(ids) ==
    IF ids = {} THEN RInt(0)
    ELSE LET sid == CHOOSE x \in ids : TRUE
         IN  RAdd(CatalogValue(sid), SumOverIds(ids \ {sid}))

\* C4: a subscription counts once however many member rows share its id:
\* paying_member_count is the number of distinct paying subscription ids and
\* current_mrr the sum of their monthly values, each taken once.
C4_SubscriptionCountedOnce ==
    (pc = "done" /\ mrr_result.status = "ok") =>
        /\ mrr_result.paying_members_count = Cardinality(PayingIds(subs_df))
        /\ mrr_result.current_mrr = RDivInt(SumOverIds(PayingIds(subs_df)), 100)

\* a group subscription: two active non-education seats of two members
C4_Witness ==
    /\ pc = "done"
    /\ mrr_result.status = "ok"
    /\ mrr_result.paying_members_count = 1
    /\ \E i, j \in 1..Len(subs_df) :
           /\ i < j
           /\ subs_df[i].subscription_id = subs_df[j].subscription_id
           /\ subs_df[i].member_id # subs_df[j].member_id
           /\ Contributes(subs_df[i])
           /\ Contributes(subs_df[j])

\* C5: inactive rows and education rows never contribute: current_mrr and
\* paying_member_count are those of the table with these rows taken out.
C5_OnlyActiveNonEducation ==
    (pc = "done" /\ mrr_result.status = "ok") =>
        LET kept == calculate_mrr(Filter(subs_df,
                        [i \in 1..Len(subs_df) |-> Contributes(subs_df[i])]))
        IN  /\ mrr_result.current_mrr = kept.current_mrr
            /\ mrr_result.paying_members_count = kept.paying_members_count
            /\ (PayingIds(subs_df) = {} =>
                    /\ mrr_result.current_mrr = RInt(0)
                    /\ mrr_result.paying_members_count = 0)

\* a paying row next to an inactive row and an active education row of
\* other subscriptions
C5_Witness ==
    /\ pc = "done"
    /\ mrr_result.status = "ok"
    /\ mrr_result.paying_members_count = 1
    /\ \E i, j \in 1..Len(subs_df) :
           /\ subs_df[i].active = FALSE
           /\ subs_df[j].active = TRUE /\ subs_df[j].is_education = TRUE
           /\ subs_df[j].subscription_id \notin PayingIds(subs_df)

\* the member ids of the rows of subs_df that satisfy a filter
ActiveMemberIds ==
    {subs_df[i].member_id : i \in {k \in 1..Len(subs_df) : subs_df[k].active}}

EducationMemberIds ==
    {subs_df[i].member_id :
        i \in {k \in 1..Len(subs_df) :
                  subs_df[k].active /\ subs_df[k].is_education}}

\* C19: active_member_count is the number of distinct member_ids with an
\* active row, education_member_count the number of distinct member_ids with
\* an active education row; hence education_member_count <=
\* active_member_count and their difference is never negative.
C19_MemberCounts ==
    (pc = "done" /\ mrr_result.status = "ok") =>
        /\ mrr_result.active_count = Cardinality(ActiveMemberIds)
        /\ mrr_result.education_count = Cardinality(EducationMemberIds)
        /\ mrr_result.education_count <= mrr_result.active_count
        /\ mrr_result.active_count - mrr_result.education_count >= 0

\* an education member and another member holding two active seats
C19_Witness ==
    /\ pc = "done"
    /\ mrr_result.status = "ok"
    /\ mrr_result.education_count = 1
    /\ mrr_result.active_count = 2
    /\ \E i, j \in 1..Len(subs_df) :
           /\ i # j
           /\ subs_df[i].member_id = subs_df[j].member_id
           /\ subs_df[i].active /\ subs_df[j].active
           /\ ~subs_df[i].is_education

\* C6: for every price, unit in {week, month, year} and interval_count, the
\* monthly_value of a subscription is price / (multiplier(unit) * count),
\* a count of 0 or null being taken as 1.
C6_MonthlyValueFormula ==
    (pc = "done" /\ mrr_result.status = "ok") =>
        \A i \in 1..Len(subs_df) :
            LET sub == members_data[1].subscriptions[i]
            IN  subs_df[i].monthly_value =
                    ExpectedMonthlyValue(sub.priceCents, sub.intervalUnit,
                                         sub.intervalCount)

----------------------------------------------------------------------------
(* Properties of process_subscription_activities (SpecAct)                  *)

KnownUnits == {"week", "month", "year"}

\* C7: a plan whose interval_unit is none of week, month, year gets
\* monthly_value 0.
C7_UnknownUnitIsZero ==
    (pc = "done" /\ activity.subscription.some
        /\ activity.subscription.intervalUnit \notin KnownUnits) =>
        record.monthly_value = RInt(0)

\* C8: the monthly_value recorded for an activity on a plan equals the
\* monthly_value calculate_mrr assigns to a subscription on the same plan.
C8_SameMonthlyValue ==
    (pc = "done" /\ activity.subscription.some
        /\ activity.subscription.priceCents.t = "num"
        /\ activity.subscription.intervalUnit \in KnownUnits) =>
        record.monthly_value =
            MrrMonthlyValue([price_cents |-> activity.subscription.priceCents.v,
                             interval_unit |-> activity.subscription.intervalUnit,
                             interval_count |-> activity.subscription.intervalCount])

\* C10: every record classified as education has mrr_impact_cents 0 and
\* mrr_impact_dollars 0, whatever the activity type.
C10_EducationHasNoImpact ==
    (pc = "done" /\ record.is_education) =>
        /\ record.mrr_impact_cents = RInt(0)
        /\ record.mrr_impact_dollars = RInt(0)

\* an education cancellation on a plan with a non-zero monthly value
C10_Witness ==
    /\ pc = "done"
    /\ record.is_education
    /\ record.type = "subscription_deleted"
    /\ record.monthly_value # RInt(0)

\* C25: calculate_mrr leaves the table passed to it unchanged, same columns
\* and same values.
C25_TableUnchanged ==
    [][(pc = "flattened" /\ pc' = "done") => subs_df' = subs_df]_vars

\* C30: the paying member count calculate_mrr returns never exceeds the
\* active member count of the same call.
C30_PayingAtMostActive ==
    (pc = "done" /\ mrr_result # Unset /\ mrr_result.status = "ok") =>
        mrr_result.paying_members_count <= mrr_result.active_count

\* C21: every activity that has subscription data and is classified as
\* education is given one of the Education categories, whatever its type,
\* never a revenue category or "Other".
C21_EducationCategoryAlways ==
    (pc = "done" /\ record.has_subscription /\ record.is_education) =>
        record.category \in {"Education members", "Education renewals",
                             "Education cancellations", "Education changes"}

\* the activity has subscription data with a price and an interval unit
HasPlanData(a) ==
    /\ a.subscription.some
    /\ a.subscription.priceCents.t = "num"
    /\ a.subscription.intervalUnit # "null"

\* the category of the table of section 4.4 for a type
TableCategory(type) ==
    CASE type \in {"new_subscription", "new_order"} -> "New members"
      [] type = "subscription_reactivated" -> "Reactivations"
      [] type = "upgrade" -> "Upgrades"
      [] type = "downgrade" -> "Downgrades"
      [] type \in {"subscription_deleted", "subscription_deactivated"} -> "Cancellations"
      [] type \in {"renewal_payment_failed", "order_payment_failed",
                   "subscription_renewal_failed"} -> "Failed payments"
      [] type = "renewal" -> "Renewals"
      [] OTHER -> "Other"

\* the sign of the impact of a category: +1, -1 or 0
TableSign(category) ==
    CASE category \in {"New members", "Reactivations", "Upgrades"} -> 1
      [] category \in {"Downgrades", "Cancellations", "Failed payments"} -> -1
      [] OTHER -> 0

\* C11: a non-education activity with subscription and plan data gets the
\* category of the table for its type and the impact +mv, -mv or 0 that goes
\* with the category, mv being the monthly_value recorded for the plan.
C11_CategoryImpactTable ==
    (pc = "done" /\ HasPlanData(activity) /\ ~record.is_education) =>
        /\ record.category = TableCategory(activity.type)
        /\ record.mrr_impact_cents =
               (CASE TableSign(record.category) = 1 -> record.monthly_value
                  [] TableSign(record.category) = -1 -> RNeg(record.monthly_value)
                  [] OTHER -> RInt(0))

\* a downgrade and a failed payment recognised by substring, on a paid plan
C11_Witness ==
    /\ pc = "done"
    /\ HasPlanData(activity)
    /\ ~record.is_education
    /\ record.type \in {"downgrade", "order_payment_failed"}
    /\ record.mrr_impact_cents[1] < 0

----------------------------------------------------------------------------
(* Properties of is_education_member (SpecEdu)                              *)

\* the first order, in input order, among those with the greatest createdAt
NewestIndex(os) ==
    CHOOSE i \in 1..Len(os) :
        /\ \A j \in 1..Len(os) : os[j].createdAt <= os[i].createdAt
        /\ \A j \in 1..(i - 1) : os[j].createdAt < os[i].createdAt

IsEducationOrder(o) == o.totalCents = 0 /\ o.coupon = "Education"

\* C9: is_education_member is true iff the member has an order and the
\* order with the greatest createdAt, the first of them in input order on a
\* tie, has totalCents 0 and coupon code "Education".
C9_MostRecentOrderDecides ==
    pc = "done" =>
        (edu_result <=>
            (orders # <<>> /\ IsEducationOrder(orders[NewestIndex(orders)])))

\* a tie for the most recent order, settled for the first, and an older
\* education order that does not count
C9_Witness ==
    /\ pc = "done"
    /\ ~edu_result
    /\ \E i, j, k \in 1..Len(orders) :
           /\ i < j
           /\ orders[i].createdAt = orders[j].createdAt
           /\ \A n \in 1..Len(orders) : orders[n].createdAt <= orders[i].createdAt
           /\ ~IsEducationOrder(orders[i])
           /\ IsEducationOrder(orders[j])
           /\ orders[k].createdAt < orders[i].createdAt
           /\ IsEducationOrder(orders[k])

====
